---- MODULE Spec2Model ----
(***************************************************************************)
(* Order-flow monitor: the Flask serving surface (flask_server.py) and the *)
(* OrderFlowAnalyzer metric pipeline (orderflow.py).                       *)
(*                                                                         *)
(* Requests (start_monitoring, stop_monitoring) run as atomic handlers.    *)
(* Every poll thread (continuous_monitor) is a process with a program      *)
(* counter; a thread can be pre-empted at the blocking fetch and between   *)
(* the statements of process_order_flow and of the loop body.              *)
(*                                                                         *)
(* Numbers: quantities are small naturals, so Python's float sums,         *)
(* quotients and comparisons against 1.5, 0.67 and 2.0 are exact and are   *)
(* computed here with integers (a quotient is a pair in lowest terms).     *)
(* The one quantity whose float arithmetic rounds is 5e-324 (MinFloat).    *)
(***************************************************************************)
EXTENDS Integers, Sequences, FiniteSets, TLC

\* ------------------------------------------------------------ bounds
MaxTasks == 2
MaxRequests == 3
MaxClock == 2
RingClock == 1002
TicksPerSecond == 2
MaxLevels == 3
MaxOppositeLevels == 1
MaxQuantity == 1
MaxFlow == 1
MaxCount == 2
MaxLookback == 1
FeedClock == 4

\* ------------------------------------------------- program constants
DeltaMaxLen == 60

\* An order_flow_history created with the delta deque's capacity.
HistoryMaxLenOfDelta == DeltaMaxLen

HistoryMaxLen == 1000
TopLevels == 10
SecondsPerDay == 86400
SecondsPerMinute == 60

VARIABLES
    analyzer,            \* FALSE while the global analyzer is None
    monitoring_active,   \* the global flag
    current_data,        \* the global dashboard view; EmptyView is {}
    delta_history,       \* security id -> deque(maxlen=60) of delta points
    order_flow_history,  \* analyzer.order_flow_history, deque(maxlen=1000)
    previous_book,       \* analyzer.previous_book (one slot); NoBook is None
    tasks,               \* the poll threads: program counter and locals
    clock,               \* datetime.now(), in ticks; it advances with every record
                         \* timestamp taken, so no two records share a timestamp
    nReq,                \* history: number of requests served
    startsSinceStop,     \* history: start requests since the last stop
    spawnedSinceStop,    \* history: threads created since the last stop
    noPrevCycles,        \* history: timestamps of cycles that had no previous book
    flowLog,             \* history: the timestamp of every record handed to
                         \* order_flow_history.append (a timestamp names one record)
    deltaLog,            \* history: per id, every point handed to
                         \* delta_history[id].append, with its cycle's timestamp
    stopsSinceStart,     \* history: stop requests since the last start
    metricIn,            \* the argument of a metric function called on its own
    metricOut            \* what that call returned

vars == <<analyzer, monitoring_active, current_data, delta_history,
          order_flow_history, previous_book, tasks, clock, nReq,
          startsSinceStop, spawnedSinceStop, noPrevCycles, flowLog, deltaLog,
          stopsSinceStart, metricIn, metricOut>>

\* ------------------------------------------------------------- values
SecurityIds == {"53216", "1333"}
Tasks == 1..MaxTasks

\* A level's quantity as the broker sent it: a number, a string float()
\* rejects, or no 'quantity' key at all.
Num(n) == [tag |-> "num", val |-> n]

\* The quantity 5e-324, the smallest positive float: added to a positive
\* whole number it is absorbed, and half of it rounds to 0.0.
MinFloat == [tag |-> "minfloat"]
Unparsable == [tag |-> "str"]
Missing == [tag |-> "missing"]

Level(p, q) == [price |-> p, quantity |-> q]

\* A ladder entry that is null instead of a dict: level.get raises
\* AttributeError wherever the entry is read.
NullLevel == [price |-> 0, quantity |-> [tag |-> "null"]]
Book(l, b, s) == [ltp |-> l, buy |-> b, sell |-> s]
NoBook == [none |-> TRUE]
EmptyView == [empty |-> TRUE]
NoFlow == [none |-> TRUE]

\* The snapshots the broker returns: two well-formed ones (BookB has a level
\* without a 'quantity' key), one with a quantity float() rejects and one
\* with a null ladder entry; get_market_depth returns security_data as it is.
BookA == Book(100, <<Level(100, Num(5)), Level(99, Num(3))>>, <<Level(101, Num(2))>>)
BookB == Book(101, <<Level(100, Num(1))>>, <<Level(101, Num(4)), Level(102, Missing)>>)
BookC == Book(102, <<Level(101, Num(6)), Level(100, Unparsable)>>, <<Level(102, Num(2))>>)
BookD == Book(103, <<Level(102, Num(4)), NullLevel>>, <<Level(103, Num(2))>>)

\* The answers of the request/thread specification.
BookSet == {BookA, BookC}

\* --------------------------------------------------------- arithmetic
RECURSIVE GCD(_, _)
GCD(a, b) == IF b = 0 THEN a ELSE GCD(b, a % b)

Inf == [kind |-> "inf"]
Ratio(n, d) == LET g == GCD(n, d) IN [kind |-> "ratio", num |-> n \div g, den |-> d \div g]

\* level.get(...) raises on a null entry
GetRaises(levels) == \E i \in 1..Len(levels) : levels[i] = NullLevel

\* float(level.get('quantity', 0)): raises on an unparsable value too
FloatRaises(levels) ==
    GetRaises(levels) \/ \E i \in 1..Len(levels) : levels[i].quantity = Unparsable
FloatQty(lv) == IF lv.quantity.tag = "num" THEN lv.quantity.val ELSE 0

\* The float total of a ladder is SumQty when that is positive, and
\* otherwise TinyCount times 5e-324.
TinyCount(levels) == Cardinality({i \in 1..Len(levels) : levels[i].quantity = MinFloat})
Tiny(k) == [kind |-> "tiny", num |-> k]

\* k * 5e-324 / n in float arithmetic, as a multiple of 5e-324: the nearest
\* integer to k / n, the even one of two equally near.
RoundHalfEven(k, n) ==
    LET q == k \div n
        r == k % n
    IN IF 2 * r < n THEN q
       ELSE IF 2 * r > n THEN q + 1
       ELSE IF q % 2 = 0 THEN q ELSE q + 1

RECURSIVE SumQty(_)
SumQty(levels) == IF levels = <<>> THEN 0
                  ELSE FloatQty(Head(levels)) + SumQty(Tail(levels))

RECURSIVE MaxQty(_)
MaxQty(levels) == IF levels = <<>> THEN 0
                  ELSE LET m == MaxQty(Tail(levels)) q == FloatQty(Head(levels))
                       IN IF q > m THEN q ELSE m

\* ------------------------------------------------------ metric engine
\* A calculate_imbalance_ratio without the "total_ask_qty == 0" test: the
\* division raises and the except branch answers.
ImbalanceWithoutSentinel(md) ==
    IF FloatRaises(md.buy) \/ FloatRaises(md.sell) THEN Ratio(1, 1)
    ELSE IF SumQty(md.sell) = 0 THEN Ratio(1, 1)
    ELSE Ratio(SumQty(md.buy), SumQty(md.sell))

\* calculate_imbalance_ratio: the except branch returns 1.0
calculate_imbalance_ratio(md) ==
    IF FloatRaises(md.buy) \/ FloatRaises(md.sell) THEN Ratio(1, 1)
    ELSE IF SumQty(md.sell) = 0 THEN Inf
    ELSE Ratio(SumQty(md.buy), SumQty(md.sell))

\* calculate_order_book_delta: the except branch returns zeros
ZeroDelta == [bid_delta |-> 0, ask_delta |-> 0, net_flow |-> 0]

\* A delta that adds the ask change to the bid change.
DeltaWithSummedFlow(cur, prev) ==
    IF \/ FloatRaises(cur.buy) \/ FloatRaises(cur.sell)
       \/ FloatRaises(prev.buy) \/ FloatRaises(prev.sell)
    THEN ZeroDelta
    ELSE LET bid_delta == SumQty(cur.buy) - SumQty(prev.buy)
             ask_delta == SumQty(cur.sell) - SumQty(prev.sell)
         IN [bid_delta |-> bid_delta, ask_delta |-> ask_delta,
             net_flow |-> bid_delta + ask_delta]

calculate_order_book_delta(cur, prev) ==
    IF \/ FloatRaises(cur.buy) \/ FloatRaises(cur.sell)
       \/ FloatRaises(prev.buy) \/ FloatRaises(prev.sell)
    THEN ZeroDelta
    ELSE LET bid_delta == SumQty(cur.buy) - SumQty(prev.buy)
             ask_delta == SumQty(cur.sell) - SumQty(prev.sell)
         IN [bid_delta |-> bid_delta, ask_delta |-> ask_delta,
             net_flow |-> bid_delta - ask_delta]

\* A large-order test that also counts a quantity equal to the threshold.
LargeCountAtThreshold(levels) ==
    Cardinality({i \in 1..Len(levels) :
                    FloatQty(levels[i]) * Len(levels) >= 2 * SumQty(levels)})

\* qty > avg * threshold_multiplier, with avg = sum / len and multiplier 2.0;
\* when the total is a multiple of 5e-324, avg is the rounded quotient and a
\* 5e-324 level is large exactly when avg is 0.0
LargeCount(levels) ==
    IF SumQty(levels) = 0 /\ TinyCount(levels) > 0
    THEN IF RoundHalfEven(TinyCount(levels), Len(levels)) = 0
         THEN TinyCount(levels) ELSE 0
    ELSE Cardinality({i \in 1..Len(levels) :
                         FloatQty(levels[i]) * Len(levels) > 2 * SumQty(levels)})

AvgQty(levels) ==
    IF levels = <<>> THEN Ratio(0, 1)
    ELSE IF SumQty(levels) = 0 /\ TinyCount(levels) > 0
    THEN IF RoundHalfEven(TinyCount(levels), Len(levels)) = 0 THEN Ratio(0, 1)
         ELSE Tiny(RoundHalfEven(TinyCount(levels), Len(levels)))
    ELSE Ratio(SumQty(levels), Len(levels))

\* max(quantities)
MaxSize(levels) ==
    IF MaxQty(levels) = 0 /\ TinyCount(levels) > 0 THEN Tiny(1) ELSE MaxQty(levels)

\* detect_large_orders: the except branch returns the four zero fields only
detect_large_orders(md) ==
    IF FloatRaises(md.buy) \/ FloatRaises(md.sell)
    THEN [large_bid_count |-> 0, large_ask_count |-> 0,
          max_bid_size |-> 0, max_ask_size |-> 0]
    ELSE [large_bid_count |-> LargeCount(md.buy),
          large_ask_count |-> LargeCount(md.sell),
          max_bid_size |-> MaxSize(md.buy), max_ask_size |-> MaxSize(md.sell),
          avg_bid_size |-> AvgQty(md.buy), avg_ask_size |-> AvgQty(md.sell)]

\* ---------------------------------------------------------- classifier
\* An "imbalance < 0.67" test that never fires.
ImbalanceNeverBelow(r) == FALSE

\* An "imbalance < 0.67" test that also fires at 0.67.
ImbalanceAtMost(r) == r.kind = "ratio" /\ 100 * r.num <= 67 * r.den

ImbalanceAbove(r) == r.kind = "inf" \/ (r.kind = "ratio" /\ 2 * r.num > 3 * r.den)  \* > 1.5
ImbalanceBelow(r) == r.kind = "ratio" /\ 100 * r.num < 67 * r.den               \* < 0.67

generate_order_flow_signals(imbalance, net_flow, large_bid_count, large_ask_count) ==
    LET bullish_signals ==
            (IF ImbalanceAbove(imbalance) THEN 2 ELSE 0)
          + (IF net_flow > 0 THEN 1 ELSE 0)
          + (IF large_bid_count > large_ask_count THEN 1 ELSE 0)
        bearish_signals ==
            (IF ~ImbalanceAbove(imbalance) /\ ImbalanceBelow(imbalance) THEN 2 ELSE 0)
          + (IF net_flow < 0 THEN 1 ELSE 0)
          + (IF large_ask_count > large_bid_count THEN 1 ELSE 0)
    IN IF bullish_signals > bearish_signals + 1 THEN "BULLISH_FLOW"
       ELSE IF bearish_signals > bullish_signals + 1 THEN "BEARISH_FLOW"
       ELSE "NEUTRAL_FLOW"

\* ------------------------------------------------------ bounded deques
\* A full deque that makes room by dropping its newest element.
DequeAppendDropNewest(q, x, maxlen) ==
    IF Len(q) < maxlen THEN Append(q, x) ELSE Append(SubSeq(q, 1, Len(q) - 1), x)

\* collections.deque(maxlen=n).append
DequeAppend(q, x, maxlen) ==
    IF Len(q) < maxlen THEN Append(q, x) ELSE Append(Tail(q), x)

\* --------------------------------------------------------------- state
\* No metric function has been called on its own.
NoInput == [kind |-> "none"]
NoOutput == [fn |-> "none", value |-> 0]

\* pc, security_id, book (current_book) and flow (flow_data) are the thread's
\* position and locals; cancelled (a stop was served while the thread was
\* alive) and last (how its latest cycle ended) are history.
IdleTask == [pc |-> "unborn", security_id |-> "", book |-> NoBook,
             flow |-> NoFlow, cancelled |-> FALSE, last |-> "none"]

Alive(t) == tasks[t].pc \notin {"unborn", "done"}
Unborn == {t \in Tasks : tasks[t].pc = "unborn"}
Monitoring(id) == {t \in Tasks : Alive(t) /\ tasks[t].security_id = id}

\* The process after import: the module globals of flask_server.py; the
\* analyzer's fields are those OrderFlowAnalyzer.__init__ will set.
Constructed ==
    /\ analyzer = FALSE
    /\ monitoring_active = FALSE
    /\ current_data = EmptyView
    /\ delta_history = [id \in SecurityIds |-> <<>>]
    /\ order_flow_history = <<>>
    /\ previous_book = NoBook
    /\ tasks = [t \in Tasks |-> IdleTask]
    /\ clock = 0
    /\ nReq = 0
    /\ startsSinceStop = 0
    /\ spawnedSinceStop = 0
    /\ noPrevCycles = {}
    /\ flowLog = <<>>
    /\ deltaLog = [id \in SecurityIds |-> <<>>]
    /\ stopsSinceStart = 0

Init ==
    /\ Constructed
    /\ metricIn = NoInput
    /\ metricOut = NoOutput

\* ------------------------------------------------------------ requests
\* A start_monitoring that creates a thread on every call.
ShouldSpawnAlways == TRUE

\* start_monitoring: "if not monitoring_active"
ShouldSpawn == ~monitoring_active

\* threading.Thread(target=continuous_monitor, args=(security_id, ...)).start()
SpawnThread(id) ==
    LET t == CHOOSE u \in Unborn : \A v \in Unborn : u <= v
    IN tasks' = [tasks EXCEPT ![t] = [IdleTask EXCEPT !.pc = "loop", !.security_id = id]]

start_monitoring(id) ==
    /\ analyzer' = TRUE
    /\ IF ShouldSpawn
       THEN /\ Unborn # {}
            /\ monitoring_active' = TRUE
            /\ SpawnThread(id)
            /\ spawnedSinceStop' = spawnedSinceStop + 1
       ELSE UNCHANGED <<monitoring_active, tasks, spawnedSinceStop>>
    /\ nReq' = nReq + 1
    /\ startsSinceStop' = startsSinceStop + 1
    /\ stopsSinceStart' = 0
    /\ UNCHANGED <<current_data, delta_history, order_flow_history,
                   previous_book, clock, noPrevCycles, flowLog, deltaLog,
                   metricIn, metricOut>>

\* A stop_monitoring that flips the flag instead of clearing it.
StopToggles ==
    /\ monitoring_active' = ~monitoring_active
    /\ tasks' = [t \in Tasks |->
                    IF Alive(t) THEN [tasks[t] EXCEPT !.cancelled = TRUE] ELSE tasks[t]]
    /\ nReq' = nReq + 1
    /\ startsSinceStop' = 0
    /\ stopsSinceStart' = stopsSinceStart + 1
    /\ spawnedSinceStop' = 0
    /\ UNCHANGED <<analyzer, current_data, delta_history, order_flow_history,
                   previous_book, clock, noPrevCycles, flowLog, deltaLog,
                   metricIn, metricOut>>

\* stop_monitoring: "monitoring_active = False"
stop_monitoring ==
    /\ monitoring_active' = FALSE
    /\ tasks' = [t \in Tasks |->
                    IF Alive(t) THEN [tasks[t] EXCEPT !.cancelled = TRUE] ELSE tasks[t]]
    /\ nReq' = nReq + 1
    /\ startsSinceStop' = 0
    /\ stopsSinceStart' = stopsSinceStart + 1
    /\ spawnedSinceStop' = 0
    /\ UNCHANGED <<analyzer, current_data, delta_history, order_flow_history,
                   previous_book, clock, noPrevCycles, flowLog, deltaLog,
                   metricIn, metricOut>>

\* get_current_data, get_delta_data
get_current_data == current_data
get_delta_data(id) == delta_history[id]

\* ---------------------------------------------------- the poll thread
SetTask(t, r) == tasks' = [tasks EXCEPT ![t] = r]

\* continuous_monitor: "while monitoring_active" (reached from thread start
\* and from time.sleep(interval))
LoopContinues == monitoring_active

LoopTest(t) ==
    /\ tasks[t].pc = "loop"
    /\ SetTask(t, [tasks[t] EXCEPT !.pc = IF LoopContinues THEN "fetch" ELSE "done"])
    /\ UNCHANGED <<analyzer, monitoring_active, current_data, delta_history,
                   order_flow_history, previous_book, clock, nReq,
                   startsSinceStop, spawnedSinceStop, noPrevCycles, flowLog, deltaLog,
                   stopsSinceStart, metricIn, metricOut>>

\* A loop that ends its thread when the fetch fails.
AfterAbsentDies(t) == [tasks[t] EXCEPT !.pc = "done", !.book = NoBook, !.flow = NoFlow,
                                       !.last = "absent"]

\* What the cycle does when get_market_depth returned None: process_order_flow
\* returns None, "if flow_data" fails, the loop sleeps.
AfterAbsent(t) == [tasks[t] EXCEPT !.pc = "loop", !.book = NoBook, !.flow = NoFlow,
                                   !.last = "absent"]

\* process_order_flow: current_book = self.get_market_depth(...); b is the
\* broker's answer, NoBook for every failure get_market_depth turns into None.
get_market_depth(t, b) ==
    /\ tasks[t].pc = "fetch"
    /\ SetTask(t, IF b = NoBook THEN AfterAbsent(t)
                  ELSE [tasks[t] EXCEPT !.pc = "compute", !.book = b])
    /\ UNCHANGED <<analyzer, monitoring_active, current_data, delta_history,
                   order_flow_history, previous_book, clock, nReq,
                   startsSinceStop, spawnedSinceStop, noPrevCycles, flowLog, deltaLog,
                   stopsSinceStart, metricIn, metricOut>>

\* process_order_flow: "delta_data = {}; if self.previous_book: ..." followed
\* by delta_data.get(key, 0)
DeltaOrDefault(cur, prev) ==
    IF prev # NoBook THEN calculate_order_book_delta(cur, prev) ELSE ZeroDelta

\* process_order_flow: the metrics, the delta and the compiled flow_data
FlowData(id, cur, prev, now) ==
    LET imbalance_ratio == calculate_imbalance_ratio(cur)
        large_orders == detect_large_orders(cur)
        delta_data == DeltaOrDefault(cur, prev)
    IN [timestamp |-> now,
        security_id |-> id,
        ltp |-> cur.ltp,
        imbalance_ratio |-> imbalance_ratio,
        large_orders |-> large_orders,
        net_flow |-> delta_data.net_flow,
        bid_delta |-> delta_data.bid_delta,
        ask_delta |-> delta_data.ask_delta,
        signal |-> generate_order_flow_signals(imbalance_ratio, delta_data.net_flow,
                       large_orders.large_bid_count, large_orders.large_ask_count)]

ProcessCompute(t) ==
    /\ tasks[t].pc = "compute"
    /\ SetTask(t, [tasks[t] EXCEPT !.pc = "store",
                     !.flow = FlowData(tasks[t].security_id, tasks[t].book,
                                       previous_book, clock)])
    /\ clock' = clock + 1
    /\ noPrevCycles' = IF previous_book = NoBook THEN noPrevCycles \cup {clock}
                       ELSE noPrevCycles
    /\ UNCHANGED <<analyzer, monitoring_active, current_data, delta_history,
                   order_flow_history, previous_book, nReq,
                   startsSinceStop, spawnedSinceStop, flowLog, deltaLog,
                   stopsSinceStart, metricIn, metricOut>>

\* process_order_flow: "self.order_flow_history.append(flow_data);
\* self.previous_book = current_book; return flow_data"
ProcessStore(t) ==
    /\ tasks[t].pc = "store"
    /\ order_flow_history' = DequeAppend(order_flow_history, tasks[t].flow, HistoryMaxLen)
    /\ previous_book' = tasks[t].book
    /\ flowLog' = Append(flowLog, tasks[t].flow.timestamp)
    /\ SetTask(t, [tasks[t] EXCEPT !.pc = "publish"])
    /\ UNCHANGED <<analyzer, monitoring_active, current_data, delta_history,
                   clock, nReq, startsSinceStop, spawnedSinceStop, noPrevCycles,
                   deltaLog,
                   stopsSinceStart, metricIn, metricOut>>

\* datetime.now().strftime('%H:%M:%S'): the date and the sub-second part are lost
FormatHMS(now) == (now \div TicksPerSecond) % SecondsPerDay

\* [:10]
Top(levels) == SubSeq(levels, 1, IF Len(levels) < TopLevels THEN Len(levels) ELSE TopLevels)

\* {'price': level.get('price', 0), 'quantity': level.get('quantity', 0)}
DisplayLevel(lv) ==
    [price |-> lv.price,
     quantity |-> IF lv.quantity = Missing THEN Num(0) ELSE lv.quantity]

DisplayLevels(levels) == [i \in 1..Len(Top(levels)) |-> DisplayLevel(levels[i])]

\* transform_for_dashboard: the ladder is read from analyzer.previous_book;
\* the except branch returns {}
transform_for_dashboard(flow_data, market_depth, now) ==
    IF market_depth # NoBook
       /\ (GetRaises(Top(market_depth.buy)) \/ GetRaises(Top(market_depth.sell)))
    THEN EmptyView
    ELSE
    [ltp |-> flow_data.ltp,
     imbalanceRatio |-> flow_data.imbalance_ratio,
     netFlow |-> flow_data.net_flow,
     signal |-> flow_data.signal,
     timestamp |-> FormatHMS(now),
     orderBook |-> IF market_depth = NoBook
                   THEN [bids |-> <<>>, asks |-> <<>>]
                   ELSE [bids |-> DisplayLevels(market_depth.buy),
                         asks |-> DisplayLevels(market_depth.sell)],
     largeOrders |-> [largeBids |-> flow_data.large_orders.large_bid_count,
                      largeAsks |-> flow_data.large_orders.large_ask_count]]

DeltaPoint(dashboard_data, flow_data) ==
    [timestamp |-> dashboard_data.timestamp,
     bid_delta |-> flow_data.bid_delta,
     ask_delta |-> flow_data.ask_delta,
     net_flow |-> flow_data.net_flow]

\* continuous_monitor, "if flow_data:" branch; dashboard_data['timestamp']
\* raises KeyError on {}, after current_data was assigned, and the loop's
\* except branch ends the cycle
Publish(t) ==
    LET flow_data == tasks[t].flow
        dashboard_data == transform_for_dashboard(flow_data, previous_book, clock)
    IN /\ tasks[t].pc = "publish"
       /\ current_data' = dashboard_data
       /\ IF dashboard_data = EmptyView
          THEN /\ UNCHANGED <<delta_history, deltaLog>>
               /\ SetTask(t, [tasks[t] EXCEPT !.pc = "loop", !.book = NoBook,
                                              !.flow = NoFlow, !.last = "failed"])
          ELSE /\ delta_history' =
                     [delta_history EXCEPT ![tasks[t].security_id] =
                         DequeAppend(@, DeltaPoint(dashboard_data, flow_data), DeltaMaxLen)]
               /\ deltaLog' =
                     [deltaLog EXCEPT ![tasks[t].security_id] =
                         Append(@, [cycle |-> flow_data.timestamp,
                                    point |-> DeltaPoint(dashboard_data, flow_data)])]
               /\ SetTask(t, [tasks[t] EXCEPT !.pc = "loop", !.book = NoBook,
                                              !.flow = NoFlow, !.last = "published"])
       /\ UNCHANGED <<analyzer, monitoring_active, order_flow_history, previous_book,
                      clock, nReq, startsSinceStop, spawnedSinceStop, noPrevCycles,
                      flowLog,
                      stopsSinceStart, metricIn, metricOut>>

\* ------------------------------------------------------- flow summary
AddRatio(a, b) ==
    IF a.kind = "inf" \/ b.kind = "inf" THEN Inf
    ELSE Ratio(a.num * b.den + b.num * a.den, a.den * b.den)

DivRatio(a, n) == IF a.kind = "inf" THEN Inf ELSE Ratio(a.num, a.den * n)

\* {} and the exception a statement of the try block raises
EmptySummary == [empty |-> TRUE]
Raised == [raised |-> TRUE]

\* datetime.fromisoformat(data['timestamp']).timestamp() > cutoff_time, with
\* cutoff_time = now - lookback_minutes * 60
RecentData(lookback_minutes, now) ==
    SelectSeq(order_flow_history,
              LAMBDA data : data.timestamp >
                               now - lookback_minutes * SecondsPerMinute * TicksPerSecond)

\* A summary that computes its statistics whatever recent_data holds.
GuardSkipped(recent_data) == FALSE

\* "if not recent_data"
NotRecent(recent_data) == recent_data = <<>>

RECURSIVE SumImbalance(_)
SumImbalance(recent_data) ==
    IF recent_data = <<>> THEN Ratio(0, 1)
    ELSE AddRatio(Head(recent_data).imbalance_ratio, SumImbalance(Tail(recent_data)))

RECURSIVE SumNetFlow(_)
SumNetFlow(recent_data) ==
    IF recent_data = <<>> THEN 0
    ELSE Head(recent_data).net_flow + SumNetFlow(Tail(recent_data))

\* signal_counts: a dict, so its keys are in order of first appearance
SignalCounts(recent_data) ==
    [s \in {recent_data[i].signal : i \in 1..Len(recent_data)} |->
        Cardinality({i \in 1..Len(recent_data) : recent_data[i].signal = s})]

FirstSeen(recent_data, s) ==
    CHOOSE i \in 1..Len(recent_data) :
        /\ recent_data[i].signal = s
        /\ \A j \in 1..(i - 1) : recent_data[j].signal # s

\* max(signal_counts.items(), key=lambda x: x[1])[0]: the first key, in dict
\* order, among those with the greatest count
DominantSignal(recent_data) ==
    LET counts == SignalCounts(recent_data)
    IN CHOOSE s \in DOMAIN counts :
          \A u \in DOMAIN counts :
              \/ counts[u] < counts[s]
              \/ counts[u] = counts[s]
                    /\ FirstSeen(recent_data, s) <= FirstSeen(recent_data, u)

\* The statistics of get_flow_summary; the division by len(recent_data) raises
\* ZeroDivisionError on an empty list.
SummaryStatistics(recent_data, lookback_minutes) ==
    IF Len(recent_data) = 0 THEN Raised
    ELSE [period_minutes |-> lookback_minutes,
          data_points |-> Len(recent_data),
          avg_imbalance_ratio |-> DivRatio(SumImbalance(recent_data), Len(recent_data)),
          total_net_flow |-> SumNetFlow(recent_data),
          signal_distribution |-> SignalCounts(recent_data),
          dominant_signal |-> DominantSignal(recent_data)]

\* The try block of get_flow_summary
FlowSummaryTry(lookback_minutes) ==
    LET recent_data == RecentData(lookback_minutes, clock)
    IN IF NotRecent(recent_data) THEN EmptySummary
       ELSE SummaryStatistics(recent_data, lookback_minutes)

\* get_flow_summary: the except branch returns {}
get_flow_summary(lookback_minutes) ==
    IF FlowSummaryTry(lookback_minutes) = Raised THEN EmptySummary
    ELSE FlowSummaryTry(lookback_minutes)

\* ------------------------------------------------------ specifications
Next ==
    \/ \E id \in SecurityIds : nReq < MaxRequests /\ start_monitoring(id)
    \/ nReq < MaxRequests /\ stop_monitoring
    \/ \E t \in Tasks : LoopTest(t)
    \/ \E t \in Tasks, b \in BookSet \cup {NoBook} : get_market_depth(t, b)
    \/ \E t \in Tasks : clock < MaxClock /\ ProcessCompute(t)
    \/ \E t \in Tasks : ProcessStore(t)
    \/ \E t \in Tasks : Publish(t)

Spec == Init /\ [][Next]_vars

\* One monitoring session that runs long enough to fill both deques: one
\* start request, and the broker answers every fetch, alternately with
\* BookA and BookB.
RingBook(now) == IF now % 2 = 0 THEN BookA ELSE BookB

NextRing ==
    \/ \E id \in SecurityIds : nReq = 0 /\ start_monitoring(id)
    \/ \E t \in Tasks : LoopTest(t)
    \/ \E t \in Tasks : get_market_depth(t, RingBook(clock))
    \/ \E t \in Tasks : clock < RingClock /\ ProcessCompute(t)
    \/ \E t \in Tasks : ProcessStore(t)
    \/ \E t \in Tasks : Publish(t)

SpecRing == Init /\ [][NextRing]_vars

\* One monitoring session of a few cycles in which the broker answers with
\* any of the snapshots, the one with a null ladder entry included, or fails.
FeedBooks == {BookA, BookB, BookD}

NextFeed ==
    \/ \E id \in SecurityIds : nReq = 0 /\ start_monitoring(id)
    \/ \E t \in Tasks : LoopTest(t)
    \/ \E t \in Tasks, b \in FeedBooks \cup {NoBook} : get_market_depth(t, b)
    \/ \E t \in Tasks : clock < FeedClock /\ ProcessCompute(t)
    \/ \E t \in Tasks : ProcessStore(t)
    \/ \E t \in Tasks : Publish(t)

SpecFeed == Init /\ [][NextFeed]_vars

\* ------------------------------------- the metric functions on their own
\* The arguments: snapshots with one ladder of up to MaxLevels levels and
\* the opposite ladder of up to MaxOppositeLevels levels, a level's quantity
\* being a number up to MaxQuantity, absent, or unparsable; a snapshot with
\* bid quantities 10, 10, 10, 100; pairs of a current and a previous snapshot;
\* flow_data dictionaries with an imbalance around the two thresholds.
Quantities == {Num(q) : q \in 0..MaxQuantity} \cup {Missing, Unparsable}
Ladders(n) == UNION {[1..k -> {Level(100, q) : q \in Quantities}] : k \in 0..n}

ScenarioBook ==
    Book(100, <<Level(100, Num(10)), Level(99, Num(10)), Level(98, Num(10)),
                Level(97, Num(100))>>, <<>>)

MetricBooks ==
    {Book(100, b, s) : b \in Ladders(MaxLevels), s \in Ladders(MaxOppositeLevels)}
        \cup {Book(100, b, s) : b \in Ladders(MaxOppositeLevels), s \in Ladders(MaxLevels)}
        \cup {ScenarioBook, BookA, BookB, BookC}

PreviousBooks == {BookA, BookB, BookC}

DeltaBooks ==
    {Book(100, b, s) : b \in Ladders(MaxOppositeLevels), s \in Ladders(MaxOppositeLevels)}
        \cup PreviousBooks

\* Snapshots whose quantities are 0 or 5e-324, for detect_large_orders.
TinyLadders(n) ==
    UNION {[1..k -> {Level(100, Num(0)), Level(100, MinFloat)}] : k \in 0..n}

TinyBooks ==
    {Book(100, b, s) : b \in TinyLadders(MaxLevels), s \in TinyLadders(MaxOppositeLevels)}
        \cup {Book(100, b, s) : b \in TinyLadders(MaxOppositeLevels), s \in TinyLadders(MaxLevels)}

ImbalanceValues ==
    {Inf, Ratio(0, 1), Ratio(1, 2), Ratio(2, 3), Ratio(67, 100), Ratio(1, 1),
     Ratio(3, 2), Ratio(2, 1)}

MetricInputs ==
    {[kind |-> "book", book |-> b] : b \in MetricBooks}
    \cup {[kind |-> "tiny_book", book |-> b] : b \in TinyBooks \ MetricBooks}
    \cup UNION {{[kind |-> "pair", current_book |-> c, previous_book |-> p] :
                     p \in PreviousBooks \cup {c}} : c \in DeltaBooks}
    \cup {[kind |-> "flow_data", imbalance_ratio |-> r, net_flow |-> n,
           large_orders |-> [large_bid_count |-> x, large_ask_count |-> y]] :
              r \in ImbalanceValues, n \in (-MaxFlow)..MaxFlow,
              x \in 0..MaxCount, y \in 0..MaxCount}

InitMetrics ==
    /\ Constructed
    /\ metricIn \in MetricInputs
    /\ metricOut = NoOutput

\* One call of a metric function on metricIn; none of them touches the
\* analyzer's fields or the globals.
Returns(fn, value) ==
    /\ metricOut = NoOutput
    /\ metricOut' = [fn |-> fn, value |-> value]
    /\ UNCHANGED <<analyzer, monitoring_active, current_data, delta_history,
                   order_flow_history, previous_book, tasks, clock, nReq,
                   startsSinceStop, spawnedSinceStop, noPrevCycles, flowLog,
                   deltaLog, stopsSinceStart, metricIn>>

CallImbalanceRatio ==
    /\ metricIn.kind = "book"
    /\ Returns("calculate_imbalance_ratio", calculate_imbalance_ratio(metricIn.book))

CallLargeOrders ==
    /\ metricIn.kind \in {"book", "tiny_book"}
    /\ Returns("detect_large_orders", detect_large_orders(metricIn.book))

CallOrderBookDelta ==
    /\ metricIn.kind = "pair"
    /\ Returns("calculate_order_book_delta",
               calculate_order_book_delta(metricIn.current_book, metricIn.previous_book))

CallSignals ==
    /\ metricIn.kind = "flow_data"
    /\ Returns("generate_order_flow_signals",
               generate_order_flow_signals(metricIn.imbalance_ratio, metricIn.net_flow,
                   metricIn.large_orders.large_bid_count,
                   metricIn.large_orders.large_ask_count))

NextMetrics ==
    \/ CallImbalanceRatio
    \/ CallLargeOrders
    \/ CallOrderBookDelta
    \/ CallSignals

SpecMetrics == InitMetrics /\ [][NextMetrics]_vars

\* ============================================================== claims
LastN(s, n) == IF Len(s) <= n THEN s ELSE SubSeq(s, Len(s) - n + 1, Len(s))
AllZero(d) == d.bid_delta = 0 /\ d.ask_delta = 0 /\ d.net_flow = 0

\* r > n/d and r < n/d for an imbalance value r.
RatioGT(r, n, d) == r.kind = "inf" \/ (r.kind = "ratio" /\ r.num * d > n * r.den)
RatioLT(r, n, d) == r.kind = "ratio" /\ r.num * d < n * r.den

\* The two scores of a flow_data dictionary, as the claim counts them.
BullishScore(m) ==
    (IF RatioGT(m.imbalance_ratio, 15, 10) THEN 2 ELSE 0)
  + (IF m.net_flow > 0 THEN 1 ELSE 0)
  + (IF m.large_orders.large_bid_count > m.large_orders.large_ask_count THEN 1 ELSE 0)

BearishScore(m) ==
    (IF RatioLT(m.imbalance_ratio, 67, 100) THEN 2 ELSE 0)
  + (IF m.net_flow < 0 THEN 1 ELSE 0)
  + (IF m.large_orders.large_ask_count > m.large_orders.large_bid_count THEN 1 ELSE 0)

\* Every quantity of the snapshot is a number, or absent.
WellFormed(md) == ~FloatRaises(md.buy) /\ ~FloatRaises(md.sell)

\* What the claim says of one side: the levels above twice the mean the
\* function reports, that mean, and zeros for an empty ladder.
SideIsRight(levels, count, max, avg) ==
    /\ count = Cardinality({i \in 1..Len(levels) :
                               FloatQty(levels[i]) * avg.den > 2 * avg.num})
    /\ IF levels = <<>>
       THEN count = 0 /\ max = 0 /\ avg = Ratio(0, 1)
       ELSE /\ avg = Ratio(SumQty(levels), Len(levels))
            /\ \A i \in 1..Len(levels) : FloatQty(levels[i]) <= max
            /\ \E i \in 1..Len(levels) : FloatQty(levels[i]) = max

\* The ladder with every unparsable quantity replaced by 0.
ZeroUnparsable(levels) ==
    [i \in 1..Len(levels) |->
        IF levels[i].quantity = Unparsable
        THEN [levels[i] EXCEPT !.quantity = Num(0)] ELSE levels[i]]

\* C1: at every moment at most one poll thread is alive for an instrument.
C1_OnePollTaskPerInstrument ==
    \A id \in SecurityIds : Cardinality(Monitoring(id)) <= 1

\* C2: start requests with no stop between them create one poll thread
\* only; every start after the first is a no-op.
C2_SecondStartIsNoOp == spawnedSinceStop <= 1

C2_Witness ==
    /\ startsSinceStop >= 2
    /\ spawnedSinceStop = 1
    /\ flowLog # <<>>

\* C3: while monitoring is stopped (a stop was served and no start after
\* it), no step appends to the history or to a delta series.
C3_NoAppendAfterStop ==
    [][(~monitoring_active /\ ~monitoring_active')
          => (order_flow_history' = order_flow_history /\ delta_history' = delta_history)]_vars

\* C4: a poll thread that was alive when a stop was served never begins
\* another cycle, whatever requests follow the stop.
C4_StoppedTaskTerminates ==
    [][\A t \in Tasks :
          (tasks[t].cancelled /\ tasks[t].pc = "loop") => tasks'[t].pc # "fetch"]_vars

\* C5: a start request for an instrument that no thread polls leaves a
\* thread polling that instrument, also while another instrument is polled.
C5_StartBeginsPolling ==
    [][\A id \in SecurityIds :
          (start_monitoring(id) /\ Monitoring(id) = {})
             => (\E t \in Tasks : tasks'[t].pc \notin {"unborn", "done"}
                                  /\ tasks'[t].security_id = id)]_vars

\* C6: the delta series of every instrument has at most 60 points and is
\* the last 60 points appended for it, oldest first; after the 61st append
\* the first point appended is the one that is gone.
C6_DeltaSeriesIsLast60 ==
    \A id \in SecurityIds :
        /\ Len(get_delta_data(id)) <= 60
        /\ get_delta_data(id) =
              LastN([i \in 1..Len(deltaLog[id]) |-> deltaLog[id][i].point], 60)

C6_Witness ==
    \E id \in SecurityIds :
        /\ Len(deltaLog[id]) = 61
        /\ Len(get_delta_data(id)) = 60
        /\ get_delta_data(id)[1] = deltaLog[id][2].point
        /\ get_delta_data(id)[1] # deltaLog[id][1].point

\* C7: the history never holds more than 1000 records and is the last 1000
\* records appended, in insertion order: an append to a full history evicts
\* the oldest record.
C7_HistoryIsLast1000 ==
    /\ Len(order_flow_history) <= 1000
    /\ [i \in 1..Len(order_flow_history) |-> order_flow_history[i].timestamp]
          = LastN(flowLog, 1000)

C7_Witness ==
    /\ Len(flowLog) = 1001
    /\ Len(order_flow_history) = 1000
    /\ order_flow_history[1].timestamp = flowLog[2]
    /\ order_flow_history[1000].timestamp = flowLog[1001]

\* C8: a cycle that had no previous snapshot leaves no all-zero delta, neither
\* in its record of the history nor in its point of the delta series.
C8_NoPreviousIsNotZero ==
    /\ \A i \in 1..Len(order_flow_history) :
          order_flow_history[i].timestamp \in noPrevCycles
             => ~AllZero(order_flow_history[i])
    /\ \A id \in SecurityIds : \A i \in 1..Len(deltaLog[id]) :
          deltaLog[id][i].cycle \in noPrevCycles => ~AllZero(deltaLog[id][i].point)

\* C9: a fetch that returns absent changes neither the history, the delta
\* series, the previous-snapshot slot nor the current view, and leaves the
\* thread alive at its loop test, from where it begins the next cycle.
C9_AbsentFetchSkipsCycle ==
    [][\A t \in Tasks :
          (tasks[t].pc = "fetch" /\ tasks'[t].pc # "fetch" /\ tasks'[t].pc # "compute")
             => /\ order_flow_history' = order_flow_history
                /\ delta_history' = delta_history
                /\ previous_book' = previous_book
                /\ current_data' = current_data
                /\ tasks'[t].pc = "loop"]_vars

C9_Witness ==
    \E t \in Tasks :
        /\ tasks[t].last = "absent"
        /\ tasks[t].pc = "fetch"
        /\ order_flow_history # <<>>
        /\ current_data # EmptyView

\* C10: a level with an unparsable quantity counts as 0: the imbalance ratio
\* and the large-order figures of the record are those of the remaining
\* levels, not the functions' defaults.
C10_UnparsableLevelCountsAsZero ==
    \A t \in Tasks :
        (tasks[t].pc = "store" /\ (FloatRaises(tasks[t].book.buy) \/ FloatRaises(tasks[t].book.sell)))
           => LET zeroed == Book(tasks[t].book.ltp, ZeroUnparsable(tasks[t].book.buy),
                                 ZeroUnparsable(tasks[t].book.sell))
              IN /\ tasks[t].flow.imbalance_ratio = calculate_imbalance_ratio(zeroed)
                 /\ tasks[t].flow.large_orders = detect_large_orders(zeroed)

\* The records of one instrument, in history order.
RecordsOf(id) ==
    LET RECURSIVE Pick(_)
        Pick(s) == IF s = <<>> THEN <<>>
                   ELSE IF Head(s).security_id = id THEN <<Head(s)>> \o Pick(Tail(s))
                   ELSE Pick(Tail(s))
    IN Pick(order_flow_history)

\* C11: for one instrument, the records of the history are in strictly
\* increasing timestamp order: of two records of the instrument with no
\* other record of it between them, the later one has the greater timestamp.
C11_TimestampsIncreasePerInstrument ==
    \A id \in SecurityIds :
        \A i \in 1..(Len(RecordsOf(id)) - 1) :
            RecordsOf(id)[i].timestamp < RecordsOf(id)[i + 1].timestamp

\* C12: the signal is BULLISH_FLOW exactly when the bullish score exceeds the
\* bearish score by more than 1, BEARISH_FLOW exactly when the bearish score
\* exceeds the bullish score by more than 1, and NEUTRAL_FLOW otherwise; the
\* scores count 2 for an imbalance above 1.5 (bullish) or below 0.67
\* (bearish), 1 for the sign of the net flow and 1 for the side with more
\* large orders.
C12_SignalFollowsScores ==
    metricOut.fn = "generate_order_flow_signals"
       => /\ (metricOut.value = "BULLISH_FLOW")
                <=> (BullishScore(metricIn) > BearishScore(metricIn) + 1)
          /\ (metricOut.value = "BEARISH_FLOW")
                <=> (BearishScore(metricIn) > BullishScore(metricIn) + 1)
          /\ (metricOut.value = "NEUTRAL_FLOW")
                <=> /\ ~(BullishScore(metricIn) > BearishScore(metricIn) + 1)
                    /\ ~(BearishScore(metricIn) > BullishScore(metricIn) + 1)

C12_Witness ==
    /\ metricOut.fn = "generate_order_flow_signals"
    /\ metricIn.imbalance_ratio = Ratio(67, 100)
    /\ metricIn.net_flow < 0
    /\ metricIn.large_orders.large_ask_count > metricIn.large_orders.large_bid_count
    /\ metricOut.value = "BEARISH_FLOW"

C14_UnpolledInstrumentHasEmptyView ==
    \A id \in SecurityIds :
        (\A t \in Tasks : tasks[t].security_id # id) => get_current_data = EmptyView

\* C15: whenever no record of the history has its timestamp after the
\* start of the lookback window (the history may be empty), the summary is
\* the empty result and its computation raises nothing, so no division by
\* zero takes place.
C15_EmptyWindowGivesEmptySummary ==
    \A lookback_minutes \in 0..MaxLookback :
        (\A i \in 1..Len(order_flow_history) :
            order_flow_history[i].timestamp
               <= clock - lookback_minutes * 60 * TicksPerSecond)
           => /\ FlowSummaryTry(lookback_minutes) = EmptySummary
              /\ get_flow_summary(lookback_minutes) = EmptySummary

C15_Witness ==
    /\ order_flow_history # <<>>
    /\ get_flow_summary(0) = EmptySummary
    /\ get_flow_summary(1) # EmptySummary
    /\ get_flow_summary(1).data_points = Len(order_flow_history)

\* The records of a sequence that belong to one instrument.
OfInstrument(records, id) == SelectSeq(records, LAMBDA data : data.security_id = id)

\* C20: the summary asked for an instrument counts and aggregates only the
\* records of that instrument inside the lookback window, and is the empty
\* result when the window holds none of them, whatever other instruments
\* were monitored.
C20_SummaryIsPerInstrument ==
    \A id \in SecurityIds : \A lookback_minutes \in 0..MaxLookback :
        LET own == OfInstrument(RecentData(lookback_minutes, clock), id)
        IN get_flow_summary(lookback_minutes) =
              IF own = <<>> THEN EmptySummary
              ELSE SummaryStatistics(own, lookback_minutes)

\* C18: every stop request leaves monitoring halted and changes neither the
\* history, the delta series nor the current view; a stop served while
\* monitoring is already halted (a second stop in a row, or a stop when
\* nothing is monitored) changes nothing at all of the program's state.
C18_StopIsIdempotent ==
    [][(nReq' = nReq + 1 /\ stopsSinceStart' = stopsSinceStart + 1)
          => /\ ~monitoring_active'
             /\ UNCHANGED <<order_flow_history, delta_history, current_data>>
             /\ ~monitoring_active
                   => UNCHANGED <<analyzer, monitoring_active, previous_book, tasks, clock>>]_vars

C18_Witness ==
    /\ stopsSinceStart >= 2
    /\ ~monitoring_active
    /\ order_flow_history # <<>>
    /\ current_data # EmptyView

\* C19: when a cycle of an instrument computes its delta against the cached
\* previous snapshot, that snapshot was fetched for the same instrument: the
\* record stored together with it, the newest of the history, is a record of
\* that instrument.
C19_DeltaUsesOwnPreviousSnapshot ==
    [][\A t \in Tasks :
          (tasks[t].pc = "compute" /\ tasks'[t].pc = "store" /\ previous_book # NoBook)
             => order_flow_history[Len(order_flow_history)].security_id
                   = tasks[t].security_id]_vars

\* C21: every cycle that appended its record to the history has, once it is
\* over, appended exactly one point to the delta series of its instrument,
\* and every delta point belongs to a cycle that appended a record.
C21_OneRecordAndOneDeltaPointPerCycle ==
    /\ \A i \in 1..Len(flowLog) :
          (\A t \in Tasks : ~(tasks[t].pc = "publish" /\ tasks[t].flow.timestamp = flowLog[i]))
             => Cardinality({p \in UNION {{<<id, j>> : j \in 1..Len(deltaLog[id])} :
                                             id \in SecurityIds} :
                                deltaLog[p[1]][p[2]].cycle = flowLog[i]}) = 1
    /\ \A id \in SecurityIds : \A j \in 1..Len(deltaLog[id]) :
          \E i \in 1..Len(flowLog) : flowLog[i] = deltaLog[id][j].cycle

\* How often a signal occurs in a sequence of records, and the position of
\* its n-th occurrence.
CountOf(records, s) == Cardinality({i \in 1..Len(records) : records[i].signal = s})
ReachedAt(records, s, n) ==
    CHOOSE i \in 1..Len(records) :
        /\ records[i].signal = s
        /\ Cardinality({j \in 1..i : records[j].signal = s}) = n

\* C22: the dominant signal of a non-empty summary has the greatest count
\* among the records of the window, and of the signals that share that count
\* it is the one whose count reached it first, the records read oldest first.
C22_DominantIsFirstToReachMax ==
    \A lookback_minutes \in 0..MaxLookback :
        LET recent_data == RecentData(lookback_minutes, clock)
            dominant == get_flow_summary(lookback_minutes).dominant_signal
            signals == {recent_data[i].signal : i \in 1..Len(recent_data)}
        IN get_flow_summary(lookback_minutes) # EmptySummary
              => /\ dominant \in signals
                 /\ \A u \in signals :
                       /\ CountOf(recent_data, u) <= CountOf(recent_data, dominant)
                       /\ CountOf(recent_data, u) = CountOf(recent_data, dominant)
                             => ReachedAt(recent_data, dominant, CountOf(recent_data, dominant))
                                   <= ReachedAt(recent_data, u, CountOf(recent_data, u))

\* C23: the order book of every view a cycle publishes is the first 10
\* levels of the snapshot that cycle fetched, the snapshot its imbalance
\* ratio, net flow and signal were computed from, however the poll threads
\* interleave.
C23_ViewLadderIsOfItsOwnSnapshot ==
    [][\A t \in Tasks :
          (tasks[t].pc = "publish" /\ tasks'[t].pc = "loop")
             => /\ current_data' # EmptyView
                /\ current_data'.signal = tasks[t].flow.signal
                /\ current_data'.orderBook =
                      [bids |-> DisplayLevels(tasks[t].book.buy),
                       asks |-> DisplayLevels(tasks[t].book.sell)]]_vars

\* C24: the signal never opposes the imbalance: it is not BULLISH_FLOW when
\* the imbalance ratio is below 0.67 and not BEARISH_FLOW when the ratio is
\* above 1.5, the +infinity of a snapshot without ask quantity included.
C24_SignalNeverOpposesImbalance ==
    metricOut.fn = "generate_order_flow_signals"
       => /\ RatioLT(metricIn.imbalance_ratio, 67, 100) => metricOut.value # "BULLISH_FLOW"
          /\ RatioGT(metricIn.imbalance_ratio, 15, 10) => metricOut.value # "BEARISH_FLOW"

C24_Witness ==
    /\ metricOut.fn = "generate_order_flow_signals"
    /\ metricIn.imbalance_ratio = Inf
    /\ metricIn.net_flow < 0
    /\ metricIn.large_orders.large_ask_count > metricIn.large_orders.large_bid_count
    /\ metricOut.value = "NEUTRAL_FLOW"

\* C25: with multiplier 2.0 the large-order count of a side of n > 0 levels
\* is strictly less than n/2; a side of one or two levels has no large order.
C25_LargeCountBelowHalf ==
    metricOut.fn = "detect_large_orders"
       => /\ Len(metricIn.book.buy) > 0
                => 2 * metricOut.value.large_bid_count < Len(metricIn.book.buy)
          /\ Len(metricIn.book.sell) > 0
                => 2 * metricOut.value.large_ask_count < Len(metricIn.book.sell)
          /\ Len(metricIn.book.buy) \in {1, 2} => metricOut.value.large_bid_count = 0
          /\ Len(metricIn.book.sell) \in {1, 2} => metricOut.value.large_ask_count = 0

====
